---- MODULE Spec2Model ----
(***************************************************************************)
(* Model of streamlit_app.py: the keyword feedback engine                  *)
(* (generate_feedback) and the question session kept in st.session_state,  *)
(* driven by one script run (main) per widget event.                       *)
(*                                                                         *)
(* Texts that are matched by substring (question_ja, rule keywords) are    *)
(* sequences of characters; other texts are opaque strings.                *)
(***************************************************************************)
EXTENDS Integers, Sequences, FiniteSets, TLC

VARIABLES
    questions_raw,  \* what load_questions() returns (cached, fixed)
    rules,          \* what load_rules() returns (cached, fixed)
    session_state,  \* st.session_state: a dict with keys lang, index, qa, timestamp
    now,            \* the wall clock read by dt.datetime.now(), in ticks
    event,          \* the last widget interaction the browser attempted
    fb_call,        \* the last direct call of generate_feedback and its outcome
    shown           \* the indices the question page has shown in this session

vars == <<questions_raw, rules, session_state, now, event, fb_call, shown>>

---------------------------------------------------------------------------
\* Bounds of the model.

\* longest question catalog
MaxN == 2
\* longest rule list
MaxRules == 2
\* last clock tick
MaxTime == 2
\* clock ticks per second: now() is finer than the %S of the timestamp
TicksPerSecond == 2

---------------------------------------------------------------------------
\* Input data.

Langs == {"ja", "en"}

\* what the user may type into the text area
Texts == {"", "x"}

\* a dict given by its keys and values
EmptyDict == [k \in {} |-> ""]

HasKey(d, k) == k \in DOMAIN d

\* question records of questions.json; "ja" is matched by substring
QuestionPool ==
    << [ja |-> <<"a", "b">>, en |-> "q1"],
       [ja |-> <<"c">>, en |-> "q2"],
       [ja |-> <<"b">>, en |-> "q3"] >>

\* the catalog of n questions
Catalog(n) == [i \in 1..n |-> QuestionPool[((i - 1) % Len(QuestionPool)) + 1]]

Catalogs == {Catalog(n) : n \in 0..MaxN}

\* rule records of feedback_rules.yaml
RulePool ==
    { [keywords |-> << <<"a">> >>, feedback |-> ("ja" :> "A1" @@ "en" :> "B1")],
      [keywords |-> << <<"c", "c">>, <<"b">> >>, feedback |-> ("ja" :> "A2")],
      [feedback |-> ("en" :> "B3")] }

\* ordered rule lists without repetition, at most MaxRules long
RuleLists ==
    UNION {{s \in [1..n -> RulePool] : \A i, j \in 1..n : i # j => s[i] # s[j]}
           : n \in 0..MaxRules}

\* the "default" entry of the rule document
Defaults ==
    { [feedback |-> ("ja" :> "D" @@ "en" :> "E")],
      [feedback |-> ("ja" :> "D")],
      [feedback |-> ("en" :> "E")],
      [feedback |-> EmptyDict] }

\* rule documents whose default defines the base language "ja"
RuleSets ==
    {[rules |-> l, default |-> d] : l \in RuleLists,
                                    d \in {x \in Defaults : HasKey(x.feedback, "ja")}}

\* every rule document, also without a usable default
RuleDocs ==
    {[rules |-> l, default |-> d] : l \in RuleLists, d \in Defaults}
        \cup {[rules |-> l] : l \in RuleLists}
        \cup {[default |-> d] : d \in Defaults}

\* the question texts generate_feedback is called with directly
QuestionTexts == {<<>>, <<"a">>, <<"b">>, <<"c">>, <<"a", "b">>, <<"b", "a">>, <<"c", "c">>}

---------------------------------------------------------------------------
\* Feedback engine.

\* Python's `key in text` on strings: substring containment
Contains(key, text) ==
    \E i \in 0..(Len(text) - Len(key)) : SubSeq(text, i + 1, i + Len(key)) = key

Returned(v) == [raised |-> FALSE, value |-> v]
KeyError == [raised |-> TRUE, value |-> "KeyError"]

\* any(key in question_text for key in rule.get("keywords", []))
RuleMatches(rule, question_text) ==
    LET keywords == IF HasKey(rule, "keywords") THEN rule.keywords ELSE <<>>
    IN  \E k \in 1..Len(keywords) : Contains(keywords[k], question_text)

\* rule["feedback"].get(lang, rule["feedback"].get("ja", ""))
RuleFeedback(rule, lang) ==
    IF HasKey(rule.feedback, lang) THEN rule.feedback[lang]
    ELSE IF HasKey(rule.feedback, "ja") THEN rule.feedback["ja"]
    ELSE ""

\* rules["default"]["feedback"].get(lang, rules["default"]["feedback"]["ja"]):
\* the fallback argument is evaluated before get is called
DefaultFeedback(r, lang) ==
    IF ~HasKey(r, "default") THEN KeyError
    ELSE IF ~HasKey(r.default.feedback, "ja") THEN KeyError
    ELSE IF HasKey(r.default.feedback, lang) THEN Returned(r.default.feedback[lang])
    ELSE Returned(r.default.feedback["ja"])

\* the scan as it would be if a later matching rule replaced an earlier one
RECURSIVE ScanRulesLastWins(_, _, _, _)
ScanRulesLastWins(list, i, question_text, lang) ==
    IF i > Len(list) THEN [found |-> FALSE, value |-> ""]
    ELSE LET rest == ScanRulesLastWins(list, i + 1, question_text, lang)
         IN  IF rest.found THEN rest
             ELSE IF RuleMatches(list[i], question_text)
             THEN [found |-> TRUE, value |-> RuleFeedback(list[i], lang)]
             ELSE rest

RECURSIVE ScanRules(_, _, _, _)
ScanRules(list, i, question_text, lang) ==
    IF i > Len(list) THEN [found |-> FALSE, value |-> ""]
    ELSE IF RuleMatches(list[i], question_text)
         THEN [found |-> TRUE, value |-> RuleFeedback(list[i], lang)]
         ELSE ScanRules(list, i + 1, question_text, lang)

generate_feedback(question_text, answer_text, r, lang) ==
    LET list == IF HasKey(r, "rules") THEN r.rules ELSE <<>>
        hit == ScanRules(list, 1, question_text, lang)
    IN  IF hit.found THEN Returned(hit.value) ELSE DefaultFeedback(r, lang)

---------------------------------------------------------------------------
\* Data model and session state.

QAItem(q_ja, q_en) ==
    [q_ja |-> q_ja, q_en |-> q_en, answer |-> "", feedback_ja |-> "", feedback_en |-> ""]

\* strftime("%Y-%m-%d_%H%M%S"): the clock cut to whole seconds
strftime(t) == t \div TicksPerSecond

\* st.session_state.clear()
ClearedState == [k \in {} |-> 0]

\* init_state with the index started at 1
init_state_from_one(ss, questions, t) ==
    LET s1 == IF HasKey(ss, "lang") THEN ss ELSE ss @@ ("lang" :> "ja")
        s2 == IF HasKey(s1, "index") THEN s1 ELSE s1 @@ ("index" :> 1)
        s3 == IF HasKey(s2, "qa") THEN s2
              ELSE s2 @@ ("qa" :> [i \in 1..Len(questions) |->
                                      QAItem(questions[i].ja, questions[i].en)])
        s4 == IF HasKey(s3, "timestamp") THEN s3 ELSE s3 @@ ("timestamp" :> strftime(t))
    IN  s4

init_state(ss, questions, t) ==
    LET s1 == IF HasKey(ss, "lang") THEN ss ELSE ss @@ ("lang" :> "ja")
        s2 == IF HasKey(s1, "index") THEN s1 ELSE s1 @@ ("index" :> 0)
        s3 == IF HasKey(s2, "qa") THEN s2
              ELSE s2 @@ ("qa" :> [i \in 1..Len(questions) |->
                                      QAItem(questions[i].ja, questions[i].en)])
        s4 == IF HasKey(s3, "timestamp") THEN s3 ELSE s3 @@ ("timestamp" :> strftime(t))
    IN  s4

---------------------------------------------------------------------------
\* Widgets: what each returns in a script run triggered by the event ev.

NoEvent == [widget |-> "none", value |-> ""]

\* st.segmented_control: the selection, which starts at `default`
segmented_control(ev, default) == IF ev.widget = "lang" THEN ev.value ELSE default

\* a text area that empties itself when the text it holds is submitted again
text_area_toggles(ev, value) ==
    IF ev.widget = "text_area"
    THEN (IF ev.value = value THEN "" ELSE ev.value)
    ELSE value

\* st.text_area: the text typed, which starts at `value`
text_area(ev, value) == IF ev.widget = "text_area" THEN ev.value ELSE value

\* st.button: True in the run its click triggers; a disabled button is never True
button(ev, name, disabled) == ev.widget = name /\ ~disabled

---------------------------------------------------------------------------
\* The page functions. Each returns the session state it leaves and how the
\* script run went on from there.

\* a language toggle that also goes back to the first question
lang_toggle_restarts(ss, ev) ==
    [ss EXCEPT !.lang = segmented_control(ev, ss.lang),
               !.index = IF ev.widget = "lang" THEN 0 ELSE ss.index]

lang_toggle(ss, ev) ==
    [ss EXCEPT !.lang = segmented_control(ev, ss.lang)]

\* ask_current_question with fb_ja stored in both feedback fields
ask_current_question_one_lang(ss, ev, r) ==
    LET idx == ss.index
        qa_item == ss.qa[idx + 1]
        answer == text_area(ev, qa_item.answer)
        stored == [ss EXCEPT !.qa[idx + 1].answer = answer]
        fb_ja == generate_feedback(qa_item.q_ja, answer, r, "ja")
    IN  IF fb_ja.raised
        THEN [ss |-> stored, raised |-> TRUE]
        ELSE [ss |-> [stored EXCEPT !.qa[idx + 1].feedback_ja = fb_ja.value,
                                    !.qa[idx + 1].feedback_en = fb_ja.value],
              raised |-> FALSE]

\* ask_current_question that moves on to the next item once a text is submitted
ask_current_question_advances(ss, ev, r) ==
    LET idx == ss.index
        qa_item == ss.qa[idx + 1]
        answer == text_area(ev, qa_item.answer)
        stored == [ss EXCEPT !.qa[idx + 1].answer = answer,
                             !.index = IF ev.widget = "text_area" THEN idx + 1 ELSE idx]
        fb_ja == generate_feedback(qa_item.q_ja, answer, r, "ja")
        fb_en == generate_feedback(qa_item.q_ja, answer, r, "en")
    IN  IF fb_ja.raised \/ fb_en.raised
        THEN [ss |-> stored, raised |-> TRUE]
        ELSE [ss |-> [stored EXCEPT !.qa[idx + 1].feedback_ja = fb_ja.value,
                                    !.qa[idx + 1].feedback_en = fb_en.value],
              raised |-> FALSE]

\* Lines 72-88: the answer is stored before the feedback is generated; a
\* KeyError of generate_feedback ends the run with the feedback fields untouched.
ask_current_question(ss, ev, r) ==
    LET idx == ss.index
        qa_item == ss.qa[idx + 1]
        answer == text_area(ev, qa_item.answer)
        stored == [ss EXCEPT !.qa[idx + 1].answer = answer]
        fb_ja == generate_feedback(qa_item.q_ja, answer, r, "ja")
        fb_en == generate_feedback(qa_item.q_ja, answer, r, "en")
    IN  IF fb_ja.raised \/ fb_en.raised
        THEN [ss |-> stored, raised |-> TRUE]
        ELSE [ss |-> [stored EXCEPT !.qa[idx + 1].feedback_ja = fb_ja.value,
                                    !.qa[idx + 1].feedback_en = fb_en.value],
              raised |-> FALSE]

\* navigation buttons whose `disabled` argument is off by one, or missing
NextDisabledPastLast(idx, n) == idx >= n
SeeSummaryDisabledOffByOne(idx, n) == idx < n - 2
SeeSummaryNeverDisabled(idx, n) == FALSE

\* a See Summary button that is disabled at every index
SeeSummaryAlwaysDisabled(idx, n) == TRUE

\* the `disabled` argument of each navigation button
PrevDisabled(idx, n) == idx = 0
NextDisabled(idx, n) == idx >= n - 1
SeeSummaryDisabled(idx, n) == idx < n - 1

\* nav_buttons with a Prev that empties the answer of the item it goes back to
nav_buttons_prev_clears(ss, ev) ==
    LET idx == ss.index
        n == Len(ss.qa)
    IN  IF button(ev, "prev", PrevDisabled(idx, n))
        THEN [ss |-> [ss EXCEPT !.index = idx - 1, !.qa[idx].answer = ""], rerun |-> TRUE]
        ELSE IF button(ev, "next", NextDisabled(idx, n))
        THEN [ss |-> [ss EXCEPT !.index = idx + 1], rerun |-> TRUE]
        ELSE IF button(ev, "finish", SeeSummaryDisabled(idx, n))
        THEN [ss |-> [ss EXCEPT !.index = n], rerun |-> TRUE]
        ELSE [ss |-> ss, rerun |-> FALSE]

\* nav_buttons with a Next that moves two items on
nav_buttons_next_skips(ss, ev) ==
    LET idx == ss.index
        n == Len(ss.qa)
    IN  IF button(ev, "prev", PrevDisabled(idx, n))
        THEN [ss |-> [ss EXCEPT !.index = idx - 1], rerun |-> TRUE]
        ELSE IF button(ev, "next", NextDisabled(idx, n))
        THEN [ss |-> [ss EXCEPT !.index = idx + 2], rerun |-> TRUE]
        ELSE IF button(ev, "finish", SeeSummaryDisabled(idx, n))
        THEN [ss |-> [ss EXCEPT !.index = n], rerun |-> TRUE]
        ELSE [ss |-> ss, rerun |-> FALSE]

\* Lines 100-118: the first button that is True moves the index and reruns
nav_buttons(ss, ev) ==
    LET idx == ss.index
        n == Len(ss.qa)
    IN  IF button(ev, "prev", PrevDisabled(idx, n))
        THEN [ss |-> [ss EXCEPT !.index = idx - 1], rerun |-> TRUE]
        ELSE IF button(ev, "next", NextDisabled(idx, n))
        THEN [ss |-> [ss EXCEPT !.index = idx + 1], rerun |-> TRUE]
        ELSE IF button(ev, "finish", SeeSummaryDisabled(idx, n))
        THEN [ss |-> [ss EXCEPT !.index = n], rerun |-> TRUE]
        ELSE [ss |-> ss, rerun |-> FALSE]

\* a reset that leaves out st.session_state.clear()
reset_state_without_clear(ss, questions, t) == init_state(ss, questions, t)

\* Lines 151-156: clear, then init_state on the empty session state
reset_state(ss, questions, t) == init_state(ClearedState, questions, t)

\* to_frames that writes the Japanese feedback in both feedback columns
to_frames_one_feedback(ss) ==
    [i \in 1..Len(ss.qa) |->
        [index |-> i,
         question_ja |-> ss.qa[i].q_ja,
         question_en |-> ss.qa[i].q_en,
         answer |-> ss.qa[i].answer,
         feedback_ja |-> ss.qa[i].feedback_ja,
         feedback_en |-> ss.qa[i].feedback_ja]]

\* Lines 120-131: one row per item, in order, numbered from 1
to_frames(ss) ==
    [i \in 1..Len(ss.qa) |->
        [index |-> i,
         question_ja |-> ss.qa[i].q_ja,
         question_en |-> ss.qa[i].q_en,
         answer |-> ss.qa[i].answer,
         feedback_ja |-> ss.qa[i].feedback_ja,
         feedback_en |-> ss.qa[i].feedback_en]]

\* a summary page that runs the reset on every widget event
summary_page_resets_on_any_event(ss, ev, questions, t) ==
    IF ev.widget # "none"
    THEN [ss |-> reset_state(ss, questions, t), rerun |-> TRUE]
    ELSE [ss |-> ss, rerun |-> FALSE]

summary_page(ss, ev, questions, t) ==
    IF button(ev, "reset", FALSE)
    THEN [ss |-> reset_state(ss, questions, t), rerun |-> TRUE]
    ELSE [ss |-> ss, rerun |-> FALSE]

\* which page main shows: the question page or the summary page
OnQuestionPage(ss) == ss.index < Len(ss.qa)

\* the index the question page shows, if it is the question page
Displayed(ss) == IF OnQuestionPage(ss) THEN {ss.index} ELSE {}

\* One run of the script, up to its end, its exception or its st.rerun()
\* (`s2` is bound to the session state that init_state and lang_toggle leave,
\* `asked` to the outcome of ask_current_question)
script_run(ss, ev, questions, r, t) ==
    LET question_page(s2) ==
            CHOOSE out \in
                {IF asked.raised
                 THEN [ss |-> asked.ss, rerun |-> FALSE]
                 ELSE nav_buttons(asked.ss, ev) :
                     asked \in {ask_current_question(s2, ev, r)}} : TRUE
        page(s2) ==
            IF OnQuestionPage(s2)
            THEN question_page(s2)
            ELSE summary_page(s2, ev, questions, t)
    IN  CHOOSE out \in
            {page(s2) : s2 \in {lang_toggle(init_state(ss, questions, t), ev)}} : TRUE

\* main(): the run the event triggers and, after st.rerun(), the run that
\* follows it with no event (`first` is bound to the outcome of the first run)
main(ss, ev, questions, r, t) ==
    CHOOSE last \in
        {IF first.rerun
         THEN script_run(first.ss, NoEvent, questions, r, t).ss
         ELSE first.ss : first \in {script_run(ss, ev, questions, r, t)}} : TRUE

---------------------------------------------------------------------------
\* What the page shows after the last run.

N == Len(session_state.qa)

\* the run of ask_current_question on the current item ended in a KeyError
RunRaised ==
    /\ OnQuestionPage(session_state)
    /\ \E lang \in Langs :
         generate_feedback(session_state.qa[session_state.index + 1].q_ja,
                           session_state.qa[session_state.index + 1].answer,
                           rules, lang).raised

TextAreaRendered == OnQuestionPage(session_state)
NavRendered == OnQuestionPage(session_state) /\ ~RunRaised
SummaryRendered == ~OnQuestionPage(session_state)

\* a reset button on every page
ResetRenderedOnEveryPage == TRUE

\* where the reset button is on the page
ResetRendered == SummaryRendered

\* the status element of the page: st.success on the summary page, the
\* traceback of an uncaught exception, or none
StatusShown ==
    IF SummaryRendered THEN "success"
    ELSE IF RunRaised THEN "KeyError"
    ELSE "none"

---------------------------------------------------------------------------
\* Events. `ok` tells whether the widget took the interaction (a disabled
\* button does not); `again` tells that a text is submitted a second time in a row.

Event(w, v, ok) ==
    [widget |-> w, value |-> v, ok |-> ok,
     again |-> (w = "text_area" /\ event.widget = w /\ event.value = v)]

Init ==
    /\ questions_raw \in Catalogs
    /\ rules \in RuleSets
    /\ now = 0
    /\ session_state = main(ClearedState, NoEvent, questions_raw, rules, 0)
    /\ event = [widget |-> "load", value |-> "", ok |-> TRUE, again |-> FALSE]
    /\ fb_call = [called |-> FALSE]
    /\ shown = Displayed(session_state)

\* the run a widget event triggers; a reset starts the record of shown indices anew
Run(ev) ==
    /\ session_state' = main(session_state, ev, questions_raw, rules, now)
    /\ shown' = (IF ev.widget = "reset" THEN {} ELSE shown) \cup Displayed(session_state')

SetLanguage(lang) ==
    /\ Run([widget |-> "lang", value |-> lang])
    /\ event' = Event("lang", lang, TRUE)
    /\ UNCHANGED <<questions_raw, rules, now, fb_call>>

RecordAnswer(text) ==
    /\ TextAreaRendered
    /\ Run([widget |-> "text_area", value |-> text])
    /\ event' = Event("text_area", text, TRUE)
    /\ UNCHANGED <<questions_raw, rules, now, fb_call>>

\* a click on a navigation button; a disabled button sends nothing
Click(name, disabled) ==
    /\ NavRendered
    /\ IF disabled
       THEN UNCHANGED <<session_state, shown>>
       ELSE Run([widget |-> name, value |-> ""])
    /\ event' = Event(name, "", ~disabled)
    /\ UNCHANGED <<questions_raw, rules, now, fb_call>>

Prev == Click("prev", PrevDisabled(session_state.index, N))

Next == Click("next", NextDisabled(session_state.index, N))

SeeSummary == Click("finish", SeeSummaryDisabled(session_state.index, N))

Reset ==
    /\ ResetRendered
    /\ Run([widget |-> "reset", value |-> ""])
    /\ event' = Event("reset", "", TRUE)
    /\ UNCHANGED <<questions_raw, rules, now, fb_call>>

Tick ==
    /\ now < MaxTime
    /\ now' = now + 1
    /\ UNCHANGED <<questions_raw, rules, session_state, event, fb_call, shown>>

Step ==
    \/ \E lang \in Langs : SetLanguage(lang)
    \/ \E text \in Texts : RecordAnswer(text)
    \/ Prev
    \/ Next
    \/ SeeSummary
    \/ Reset
    \/ Tick

Spec == Init /\ [][Step]_vars

---------------------------------------------------------------------------
\* The feedback engine called on its own: one rule document, any question
\* text, any answer, either language.

Call(question_text, answer_text, lang) ==
    /\ fb_call' = [called |-> TRUE, question_text |-> question_text, lang |-> lang,
                   out |-> generate_feedback(question_text, answer_text, rules, lang)]
    /\ UNCHANGED <<questions_raw, rules, session_state, now, event, shown>>

InitCall(docs) ==
    /\ questions_raw = <<>>
    /\ rules \in docs
    /\ now = 0
    /\ session_state = main(ClearedState, NoEvent, questions_raw, rules, 0)
    /\ event = [widget |-> "load", value |-> "", ok |-> TRUE, again |-> FALSE]
    /\ fb_call = [called |-> FALSE]
    /\ shown = Displayed(session_state)

StepCall == \E q \in QuestionTexts, a \in Texts, lang \in Langs : Call(q, a, lang)

\* rule documents that define the base language in their default
InitMatch == InitCall(RuleSets)
SpecMatch == InitMatch /\ [][StepCall]_vars

\* every rule document
InitDocs == InitCall(RuleDocs)
SpecDocs == InitDocs /\ [][StepCall]_vars

\* the session over every rule document
InitAny ==
    /\ questions_raw \in Catalogs
    /\ rules \in RuleDocs
    /\ now = 0
    /\ session_state = main(ClearedState, NoEvent, questions_raw, rules, 0)
    /\ event = [widget |-> "load", value |-> "", ok |-> TRUE, again |-> FALSE]
    /\ fb_call = [called |-> FALSE]
    /\ shown = Displayed(session_state)

SpecAny == InitAny /\ [][Step]_vars

\* Lines 110-118: the forward button of the question page at index i, clicked
\* while enabled: Next before the last index, See Summary at the last
Forward(i) ==
    /\ session_state.index = i
    /\ Next \/ SeeSummary
    /\ event'.ok

\* the session with a user who, at every index the question page keeps coming
\* back to, eventually clicks the enabled forward button
SpecForward == Spec /\ \A i \in 0..(MaxN - 1) : SF_vars(Forward(i))

---------------------------------------------------------------------------
\* Properties of the session and of the feedback engine.

\* the feedback generate_feedback returns for item i of the session
Match(i, lang) ==
    generate_feedback(session_state.qa[i].q_ja, session_state.qa[i].answer, rules, lang)

\* C1: a click on "See Summary" is rejected, leaving the position as it is,
\* whenever the position is before the last index N-1, and it succeeds, setting
\* the position to N, exactly when the position is N-1.
C1_FinishOnlyAtLastIndex ==
    [][SeeSummary =>
         IF session_state.index = N - 1
         THEN session_state'.index = N /\ event'.ok
         ELSE session_state'.index = session_state.index /\ ~event'.ok]_vars

\* finish has succeeded from the last of two questions
C1_Witness ==
    /\ N = 2
    /\ event.widget = "finish" /\ event.ok
    /\ session_state.index = N

\* C2: the position stays in 0..N; Next moves i to i+1 only when i < N-1 and
\* Prev moves i to i-1 only when i > 0, otherwise the position is unchanged,
\* so neither leaves [0, N-1].
C2_PositionInRange ==
    /\ [](session_state.index \in 0..N)
    /\ [][Next => /\ session_state'.index =
                       IF session_state.index < N - 1
                       THEN session_state.index + 1 ELSE session_state.index
                  /\ session_state'.index \in 0..(N - 1)]_vars
    /\ [][Prev => /\ session_state'.index =
                       IF session_state.index > 0
                       THEN session_state.index - 1 ELSE session_state.index
                  /\ session_state'.index \in 0..(N - 1)]_vars

\* Next was clicked on the last of two questions and did not move
C2_Witness ==
    /\ N = 2
    /\ event.widget = "next" /\ ~event.ok
    /\ session_state.index = N - 1

\* C3: right after a reset the position is 0, the items are the catalog's
\* questions in catalog order, every answer is empty, and no item carries
\* feedback of the session before: only the first item, which the new session
\* shows, has the feedback that showing it generates.
C3_ResetWipes ==
    event.widget = "reset" =>
        /\ session_state.index = 0
        /\ Len(session_state.qa) = Len(questions_raw)
        /\ \A i \in 1..N :
             /\ session_state.qa[i].q_ja = questions_raw[i].ja
             /\ session_state.qa[i].q_en = questions_raw[i].en
             /\ session_state.qa[i].answer = ""
        /\ \A i \in 2..N :
             /\ session_state.qa[i].feedback_ja = ""
             /\ session_state.qa[i].feedback_en = ""
        /\ N >= 1 =>
             /\ session_state.qa[1].feedback_ja = Match(1, "ja").value
             /\ session_state.qa[1].feedback_en = Match(1, "en").value

\* a session of two questions has been reset
C3_Witness ==
    /\ event.widget = "reset"
    /\ N = 2
    /\ session_state.index = 0

\* C4: every reset gives the session a timestamp different from the one of
\* the session it replaces.
C4_ResetFreshId ==
    [][Reset => session_state'.timestamp # session_state.timestamp]_vars

\* C5 (as claimed): reset is enabled in every reachable state.
C5_ResetEnabledEverywhere == ENABLED Reset

\* C5: reset is enabled exactly in Summary (position = N), from where it is
\* always allowed, and in no Active(i).
C5_ResetEnabledInSummaryOnly ==
    (ENABLED Reset) <=> (session_state.index = N)

\* a summary of a session of questions, where reset is enabled
C5_Witness ==
    /\ N >= 1
    /\ session_state.index = N
    /\ ENABLED Reset

\* a click on a navigation button from a position that forbids it
Forbidden ==
    \/ SeeSummary /\ session_state.index < N - 1
    \/ Next /\ session_state.index >= N - 1
    \/ Prev /\ session_state.index = 0

C7_FeedbackConsistent ==
    \A i \in 1..N :
        LET item == session_state.qa[i]
            fresh == /\ ~Match(i, "ja").raised
                     /\ ~Match(i, "en").raised
                     /\ item.feedback_ja = Match(i, "ja").value
                     /\ item.feedback_en = Match(i, "en").value
        IN  /\ (item.answer # "" \/ i = session_state.index + 1) => fresh
            /\ fresh \/ (item.answer = "" /\ item.feedback_ja = "" /\ item.feedback_en = "")

\* an answer was edited on an item whose two feedback texts differ, while
\* another item holds an answer too
C7_Witness ==
    /\ N = 2
    /\ event.widget = "text_area" /\ event.value = ""
    /\ session_state.index = 0
    /\ session_state.qa[1].feedback_ja # session_state.qa[1].feedback_en
    /\ session_state.qa[2].answer = "x"

\* the rule list of the rule document
RuleList == IF HasKey(rules, "rules") THEN rules.rules ELSE <<>>

\* the rules of which some keyword is a substring of the text
Hits(question_text) ==
    {i \in 1..Len(RuleList) :
        /\ "keywords" \in DOMAIN RuleList[i]
        /\ \E k \in 1..Len(RuleList[i].keywords) :
             \E a, b \in 0..Len(question_text) :
                 /\ a + Len(RuleList[i].keywords[k]) = b
                 /\ SubSeq(question_text, a + 1, b) = RuleList[i].keywords[k]}

\* the entry of a feedback mapping for a language, or else for the base language
ForLang(feedback, lang) ==
    IF lang \in DOMAIN feedback THEN feedback[lang]
    ELSE IF "ja" \in DOMAIN feedback THEN feedback["ja"]
    ELSE ""

\* C8: when keywords of one or more rules occur in the question text, the
\* result is the feedback of the first of these rules in the rule list; when no
\* keyword of any rule occurs in it, the result is the default feedback for the
\* language, or for the base language where the default lacks the language.
\* (SpecMatch draws the rule document from RuleSets, whose default defines the
\* base language.)
C8_FirstRuleWins ==
    fb_call.called =>
        LET hits == Hits(fb_call.question_text)
        IN  /\ ~fb_call.out.raised
            /\ fb_call.out.value =
                 IF hits = {}
                 THEN ForLang(rules.default.feedback, fb_call.lang)
                 ELSE ForLang(RuleList[CHOOSE i \in hits : \A j \in hits : i <= j].feedback,
                              fb_call.lang)

\* the question text holds keywords of two rules with different feedback
C8_Witness ==
    /\ fb_call.called
    /\ Cardinality(Hits(fb_call.question_text)) = 2
    /\ \E i, j \in Hits(fb_call.question_text) :
         /\ i < j
         /\ ForLang(RuleList[i].feedback, fb_call.lang)
              # ForLang(RuleList[j].feedback, fb_call.lang)
         /\ fb_call.out.value = ForLang(RuleList[i].feedback, fb_call.lang)

\* C9: with a default feedback that defines at least one supported language,
\* generate_feedback returns a feedback text and raises nothing, for every
\* question text and either language.
C9_MatchNeverFails ==
    (/\ fb_call.called
     /\ HasKey(rules, "default")
     /\ \E lang \in Langs : HasKey(rules.default.feedback, lang))
        => ~fb_call.out.raised

\* C10: a text submitted a second time in a row for the same item leaves the
\* answer and the feedback of every item as the first submission left them.
C10_RecordAnswerIdempotent ==
    [][\A text \in Texts :
         (/\ event.widget = "text_area" /\ event.value = text
          /\ RecordAnswer(text))
            => /\ session_state'.qa = session_state.qa
               /\ session_state'.qa[session_state.index + 1].answer = text]_vars

\* the text "x" has been submitted twice in a row
C10_Witness ==
    /\ event.widget = "text_area" /\ event.value = "x" /\ event.again
    /\ session_state.index < N
    /\ session_state.qa[session_state.index + 1].answer = "x"
    /\ session_state.qa[session_state.index + 1].feedback_ja # ""

\* C11: the language can be set in every state, and setting it changes the
\* display language only: the position, the timestamp and every item (question
\* texts, answer, both feedback texts) stay as they are; and the items an
\* answer leaves behind are the same whichever display language is in effect.
C11_SetLanguageDisplayOnly ==
    /\ [](\A lang \in Langs : ENABLED SetLanguage(lang))
    /\ [][\A lang \in Langs :
            SetLanguage(lang) =>
                /\ session_state'.lang = lang
                /\ session_state'.index = session_state.index
                /\ session_state'.timestamp = session_state.timestamp
                /\ session_state'.qa = session_state.qa]_vars
    /\ [](TextAreaRendered =>
            \A text \in Texts, lang \in Langs :
                main([session_state EXCEPT !.lang = lang],
                     [widget |-> "text_area", value |-> text],
                     questions_raw, rules, now).qa
                  = main(session_state, [widget |-> "text_area", value |-> text],
                         questions_raw, rules, now).qa)

\* the language was set to English on the second question, with an answer stored
C11_Witness ==
    /\ N = 2
    /\ event.widget = "lang" /\ event.value = "en"
    /\ session_state.lang = "en"
    /\ session_state.index = 1
    /\ session_state.qa[2].answer = "x"
    /\ session_state.qa[2].feedback_ja # ""

\* C12 (as claimed): right after the session is created, and right after a
\* reset, the position is 0 and below N, for every catalog.
C12_StartsActive ==
    event.widget \in {"load", "reset"} =>
        /\ session_state.index = 0
        /\ session_state.index < N

\* C12: right after the session is created, and right after a reset, the
\* position is 0; the session is in Active(0) for every catalog that has a
\* question, and in Summary (0 = N) for the empty catalog.
C12_StartsAtZero ==
    event.widget \in {"load", "reset"} =>
        /\ session_state.index = 0
        /\ N = Len(questions_raw)
        /\ questions_raw # <<>> => session_state.index < N /\ ~SummaryRendered
        /\ questions_raw = <<>> => session_state.index = N /\ SummaryRendered

\* a session of two questions has just been created
C12_Witness ==
    /\ event.widget = "load"
    /\ N = 2
    /\ session_state.index = 0
    /\ session_state.qa[1].answer = ""

\* C13: in Summary (position = N) no Prev, Next, See Summary or answer can be
\* sent, and no step other than a reset changes the position or any item: the
\* only step that leaves Summary is the reset.
C13_SummaryTerminal ==
    /\ [](session_state.index = N =>
            /\ ~ENABLED Prev
            /\ ~ENABLED Next
            /\ ~ENABLED SeeSummary
            /\ \A text \in Texts : ~ENABLED RecordAnswer(text))
    /\ [][(session_state.index = N /\ ~Reset) =>
            /\ session_state'.index = session_state.index
            /\ session_state'.qa = session_state.qa]_vars
    /\ [][(session_state.index = N /\ session_state'.index # N) => Reset]_vars

\* the language was set in the summary of a session with an answer
C13_Witness ==
    /\ N = 2
    /\ session_state.index = N
    /\ event.widget = "lang" /\ event.value = "en"
    /\ session_state.qa[1].answer = "x"

\* C14: an answer submitted on item i leaves the position, the language, the
\* timestamp and every item other than i as they are, leaves the question texts
\* of item i as they are, and makes the submitted text the answer of item i.
C14_RecordAnswerFrame ==
    [][\A text \in Texts :
         RecordAnswer(text) =>
             /\ session_state'.index = session_state.index
             /\ session_state'.lang = session_state.lang
             /\ session_state'.timestamp = session_state.timestamp
             /\ Len(session_state'.qa) = N
             /\ \A j \in 1..N :
                  j # session_state.index + 1 => session_state'.qa[j] = session_state.qa[j]
             /\ session_state'.qa[session_state.index + 1].answer = text
             /\ session_state'.qa[session_state.index + 1].q_ja
                  = session_state.qa[session_state.index + 1].q_ja
             /\ session_state'.qa[session_state.index + 1].q_en
                  = session_state.qa[session_state.index + 1].q_en]_vars

\* the answer of the second item was submitted, the first item has none
C14_Witness ==
    /\ N = 2
    /\ event.widget = "text_area" /\ event.value = "x"
    /\ session_state.index = 1
    /\ session_state.qa[2].answer = "x"
    /\ session_state.qa[1].answer = ""

\* a click on a navigation button
Navigation == Prev \/ Next \/ SeeSummary

\* C15 (as claimed): Prev, Next and See Summary leave the answer and both
\* feedback texts of every item as they are.
C15_NavigationKeepsItems ==
    [][Navigation =>
         \A i \in 1..N :
             /\ session_state'.qa[i].answer = session_state.qa[i].answer
             /\ session_state'.qa[i].feedback_ja = session_state.qa[i].feedback_ja
             /\ session_state'.qa[i].feedback_en = session_state.qa[i].feedback_en]_vars

\* C15: Prev, Next and See Summary leave every answer as it is, and leave the
\* feedback of every item as it is but for the item that Next shows for the
\* first time: that item, which held no feedback, gets the feedback generated
\* for its question. An item gone back to by Prev carries the answer and the
\* feedback it had.
C15_NavigationKeepsRecorded ==
    [][Navigation =>
         /\ Len(session_state'.qa) = N
         /\ (Prev \/ SeeSummary) => session_state'.qa = session_state.qa
         /\ \A i \in 1..N :
              /\ session_state'.qa[i].answer = session_state.qa[i].answer
              /\ \/ /\ session_state'.qa[i].feedback_ja = session_state.qa[i].feedback_ja
                    /\ session_state'.qa[i].feedback_en = session_state.qa[i].feedback_en
                 \/ /\ i = session_state'.index + 1
                    /\ i - 1 \notin shown
                    /\ session_state.qa[i].feedback_ja = ""
                    /\ session_state.qa[i].feedback_en = ""
                    /\ session_state'.qa[i].feedback_ja = Match(i, "ja").value
                    /\ session_state'.qa[i].feedback_en = Match(i, "en").value]_vars

\* Prev went back to the first item, which carries its answer and feedback
C15_Witness ==
    /\ N = 2
    /\ event.widget = "prev" /\ event.ok
    /\ session_state.index = 0
    /\ session_state.qa[1].answer = "x"
    /\ session_state.qa[1].feedback_ja # ""

\* C16: whenever the session is in Summary, every index 0..N-1 has been shown
\* by the question page since the session was created or last reset. (That no
\* answer is needed is what the witness reaches: a summary with no answer.)
C16_SummaryAfterEveryQuestion ==
    SummaryRendered => shown = 0..(N - 1)

\* the summary of two questions, reached without any answer
C16_Witness ==
    /\ N = 2
    /\ session_state.index = N
    /\ event.widget = "finish" /\ event.ok
    /\ shown = {0, 1}
    /\ \A i \in 1..N : session_state.qa[i].answer = ""

\* C17: every transition applies in full or not at all, so that no reachable
\* state, a state reached when the feedback computation of a submitted answer
\* fails included, holds an item whose answer was overwritten while its
\* feedback was not recomputed: every item that carries an answer carries the
\* two feedback texts generated for it.
C17_NoPartialItem ==
    \A i \in 1..N :
        session_state.qa[i].answer # "" =>
            /\ ~Match(i, "ja").raised
            /\ ~Match(i, "en").raised
            /\ session_state.qa[i].feedback_ja = Match(i, "ja").value
            /\ session_state.qa[i].feedback_en = Match(i, "en").value

\* C18: whenever the session is in Summary, the exported table has one row per
\* item, and both feedback columns of every row hold what generate_feedback
\* returns for the item's Japanese question text, in Japanese and in English,
\* whether or not the item has an answer.
C18_ExportHasFeedback ==
    SummaryRendered =>
        /\ Len(to_frames(session_state)) = N
        /\ \A i \in 1..N :
             /\ ~Match(i, "ja").raised
             /\ ~Match(i, "en").raised
             /\ to_frames(session_state)[i].index = i
             /\ to_frames(session_state)[i].feedback_ja = Match(i, "ja").value
             /\ to_frames(session_state)[i].feedback_en = Match(i, "en").value

\* the summary of two unanswered questions whose rows carry feedback, different
\* in the two languages for the first
C18_Witness ==
    /\ N = 2
    /\ SummaryRendered
    /\ \A i \in 1..N : to_frames(session_state)[i].answer = ""
    /\ to_frames(session_state)[1].feedback_ja # to_frames(session_state)[1].feedback_en
    /\ to_frames(session_state)[2].feedback_ja # ""

\* C19: the session never deadlocks and the summary is always reachable. In
\* every reachable state a transition that changes the state is enabled: on
\* the question page the forward button of the current index (Next before the
\* last index, See Summary at the last), whose click moves the position, and
\* on the summary page Reset, which puts the position back to 0. With a user
\* who keeps clicking the enabled forward button, every question page is
\* eventually followed by the summary.
C19_NoDeadlockSummaryReachable ==
    /\ [](OnQuestionPage(session_state) => ENABLED Forward(session_state.index))
    /\ [](SummaryRendered => ENABLED Reset)
    /\ [][\A i \in 0..(MaxN - 1) :
            Forward(i) => /\ session_state'.index # session_state.index
                          /\ session_state'.index
                                = IF i < N - 1 THEN i + 1 ELSE N]_vars
    /\ [][Reset => session_state'.index = 0]_vars
    /\ (OnQuestionPage(session_state) ~> SummaryRendered)

\* the summary of two questions, entered by See Summary after an answer was
\* given to the first question and the language was switched to English
C19_Witness ==
    /\ N = 2
    /\ SummaryRendered
    /\ event.widget = "finish" /\ event.ok
    /\ session_state.lang = "en"
    /\ session_state.qa[1].answer = "x"

====
